---- MODULE Spec2Model ----
(***************************************************************************)
(* A model of badstail/mail-optimizer: the monthly PDF analysis            *)
(* (src/analyze_pdfs_by_month.py), its pure text helpers, and the          *)
(* anchor/label parsers of src/pdf_extractors.py.                          *)
(*                                                                         *)
(* Text is a sequence of one-character strings, so that the regular        *)
(* expressions of the source are computed character by character.          *)
(***************************************************************************)
EXTENDS Integers, Sequences, FiniteSets, TLC

\* ------------------------------------------------------------------ bounds

\* Number of pages a document of the monthly run may hold.
MaxPages == 2
\* Number of slots of an address drawn for normalize_address.
MaxSlots == 2
\* Number of characters placed before and after the ZIP sample.
MaxAffix == 2
\* Number of tokens of a text handed to parse_county_and_instrument.
MaxParseTokens == 3
\* Ratios above 1 that the geometry is tried with are 1.5, 2.5, ...
MaxRatioOver == 1

\* pieces of a text block handed to extract_address_lines
MaxLineTokens == 3

\* the largest max_lines handed to extract_address_lines
MaxLinesArg == 2

\* pieces of a text handed to parse_recipient_and_address
MaxRecipTokens == 4

\* the largest max_lines_after tried besides the default
MaxLinesAfter == 2

\* word boxes handed to words_to_text
MaxWords == 3

\* --------------------------------------------------------------- characters

UpperLetters ==
    <<"A","B","C","D","E","F","G","H","I","J","K","L","M",
      "N","O","P","Q","R","S","T","U","V","W","X","Y","Z">>

LowerLetters ==
    <<"a","b","c","d","e","f","g","h","i","j","k","l","m",
      "n","o","p","q","r","s","t","u","v","w","x","y","z">>

Range(f) == {f[i] : i \in DOMAIN f}

Digits == {"0","1","2","3","4","5","6","7","8","9"}

IsUpper(c) == c \in Range(UpperLetters)

IsLower(c) == c \in Range(LowerLetters)

IsDigit(c) == c \in Digits

IsAlnum(c) == IsUpper(c) \/ IsLower(c) \/ IsDigit(c)

\* \w of the re module
IsWordChar(c) == IsAlnum(c) \/ c = "_"

\* \s of the re module, and what str.strip removes
IsSpace(c) == c \in {" ", "\n", "\r", "\t", "\f"}

\* one character of str.upper
UpperChar(c) ==
    IF IsLower(c)
    THEN UpperLetters[CHOOSE i \in DOMAIN LowerLetters : LowerLetters[i] = c]
    ELSE c

\* one character of str.lower (re.IGNORECASE compares case-folded characters)
LowerChar(c) ==
    IF IsUpper(c)
    THEN LowerLetters[CHOOSE i \in DOMAIN UpperLetters : UpperLetters[i] = c]
    ELSE c

StrUpper(s) == [i \in 1..Len(s) |-> UpperChar(s[i])]

StrLower(s) == [i \in 1..Len(s) |-> LowerChar(s[i])]

SetMin(S) == CHOOSE x \in S : \A y \in S : x <= y

SetMax(S) == CHOOSE x \in S : \A y \in S : x >= y

\* str.strip(): leading and trailing whitespace removed
Strip(s) ==
    LET keep == {i \in 1..Len(s) : ~IsSpace(s[i])}
    IN  IF keep = {} THEN <<>> ELSE SubSeq(s, SetMin(keep), SetMax(keep))

\* the text s[i..] starts with pat
MatchesAt(s, i, pat) ==
    /\ i >= 1
    /\ i + Len(pat) - 1 <= Len(s)
    /\ \A k \in 1..Len(pat) : s[i + k - 1] = pat[k]

\* p in l, for strings
Contains(l, p) == \E i \in 1..(Len(l) - Len(p) + 1) : MatchesAt(l, i, p)

IsWordAt(s, i) == i >= 1 /\ i <= Len(s) /\ IsWordChar(s[i])

\* \b between s[p-1] and s[p] (p = 1 is the start, p = Len(s)+1 the end)
Boundary(s, p) == IsWordAt(s, p - 1) # IsWordAt(s, p)

\* the sequences of a sequence of sequences, one after the other
RECURSIVE Flatten(_)
Flatten(ss) == IF ss = <<>> THEN <<>> ELSE Head(ss) \o Flatten(Tail(ss))

\* sep.join(parts)
RECURSIVE Join(_, _)
Join(parts, sep) ==
    IF parts = <<>> THEN <<>>
    ELSE IF Len(parts) = 1 THEN Head(parts)
    ELSE Head(parts) \o sep \o Join(Tail(parts), sep)

\* --------------------------------------------------------- normalize_address

\* re.sub(r"[^\w\s#&/,-]", " ", s)
PrunePunctuation(s) ==
    [i \in 1..Len(s) |->
        IF IsWordChar(s[i]) \/ IsSpace(s[i]) \/ s[i] \in {"#", "&", "/", ",", "-"}
        THEN s[i] ELSE " "]

\* re.sub(r"\s+", " ", s)
RECURSIVE CollapseFrom(_, _)
CollapseFrom(s, i) ==
    IF i > Len(s) THEN <<>>
    ELSE IF IsSpace(s[i])
         THEN (IF i > 1 /\ IsSpace(s[i - 1]) THEN <<>> ELSE <<" ">>) \o CollapseFrom(s, i + 1)
         ELSE <<s[i]>> \o CollapseFrom(s, i + 1)

CollapseSpaces(s) == CollapseFrom(s, 1)

\* re.sub(r"\b(p1|p2|..)\b", rep, s): leftmost matches, the first alternative
\* that lets the whole pattern match, no overlaps
RECURSIVE SubWordFrom(_, _, _, _)
SubWordFrom(s, i, pats, rep) ==
    IF i > Len(s) THEN <<>>
    ELSE LET hits == {k \in 1..Len(pats) :
                        /\ Boundary(s, i)
                        /\ MatchesAt(s, i, pats[k])
                        /\ Boundary(s, i + Len(pats[k]))}
         IN  IF hits = {}
             THEN <<s[i]>> \o SubWordFrom(s, i + 1, pats, rep)
             ELSE rep \o SubWordFrom(s, i + Len(pats[SetMin(hits)]), pats, rep)

ReSubWord(s, pats, rep) == SubWordFrom(s, 1, pats, rep)

\* the dict repl, in insertion order: <<pattern word, substitute>>
Repl ==
    << << <<"S","T","R","E","E","T">>,                 <<"S","T">> >>,
       << <<"S","T">>,                                 <<"S","T">> >>,
       << <<"A","V","E","N","U","E">>,                 <<"A","V","E">> >>,
       << <<"R","O","A","D">>,                         <<"R","D">> >>,
       << <<"B","O","U","L","E","V","A","R","D">>,     <<"B","L","V","D">> >>,
       << <<"D","R","I","V","E">>,                     <<"D","R">> >>,
       << <<"C","O","U","R","T">>,                     <<"C","T">> >>,
       << <<"L","A","N","E">>,                         <<"L","N">> >>,
       << <<"T","E","R","R","A","C","E">>,             <<"T","E","R">> >> >>

\* for pat, sub in repl.items(): s = re.sub(pat, sub, s)
RECURSIVE ApplyRepl(_, _)
ApplyRepl(s, table) ==
    IF table = <<>> THEN s
    ELSE ApplyRepl(ReSubWord(s, <<Head(table)[1]>>, Head(table)[2]), Tail(table))

\* r"\b(APARTMENT|APT\.)\b"
UnitPatterns ==
    << <<"A","P","A","R","T","M","E","N","T">>, <<"A","P","T",".">> >>

\* The faulty variant: whitespace collapsed before the punctuation is pruned.
normalize_address_collapse_first(addr) ==
    LET s1 == StrUpper(addr)
        s2 == PrunePunctuation(Strip(CollapseSpaces(s1)))
        s3 == ApplyRepl(s2, Repl)
        s4 == ReSubWord(s3, UnitPatterns, <<"A","P","T">>)
    IN  ReSubWord(s4, << <<"S","U","I","T","E">> >>, <<"S","T","E">>)

normalize_address(addr) ==
    LET s1 == StrUpper(addr)
        s2 == PrunePunctuation(s1)
        s3 == Strip(CollapseSpaces(s2))
        s4 == ApplyRepl(s3, Repl)
        s5 == ReSubWord(s4, UnitPatterns, <<"A","P","T">>)
    IN  ReSubWord(s5, << <<"S","U","I","T","E">> >>, <<"S","T","E">>)

\* ------------------------------------------------- looks_like_address_block

AllDigits(s, i, n) == i + n - 1 <= Len(s) /\ \A k \in i..(i + n - 1) : IsDigit(s[k])

\* (\d{5})(-\d{4})?\b with the five digits starting at j
ZipAt(s, j) ==
    /\ AllDigits(s, j, 5)
    /\ \/ /\ j + 5 <= Len(s)
          /\ s[j + 5] = "-"
          /\ AllDigits(s, j + 6, 4)
          /\ Boundary(s, j + 10)
       \/ Boundary(s, j + 5)

IsZipSeparator(c) == IsSpace(c) \/ c = ","

\* one past the end of the [\s,]+ run that starts at i
SeparatorRunEnd(s, i) ==
    SetMin({j \in i..(Len(s) + 1) : j = Len(s) + 1 \/ ~IsZipSeparator(s[j])})

\* re.search(r"\b[A-Z]{2}\b[\s,]+(\d{5})(-\d{4})?\b", t)
StateZipSearch(t) ==
    \E i \in 1..Len(t) :
        /\ Boundary(t, i)
        /\ i + 1 <= Len(t)
        /\ IsUpper(t[i]) /\ IsUpper(t[i + 1])
        /\ Boundary(t, i + 2)
        /\ LET j == SeparatorRunEnd(t, i + 2)
           IN  j > i + 2 /\ ZipAt(t, j)

\* re.search(r"\b\d{5}(-\d{4})?\b", t)
BareZipSearch(t) == \E i \in 1..Len(t) : Boundary(t, i) /\ ZipAt(t, i)

\* The faulty variant: the bare-ZIP pattern is left out.
looks_like_address_block_state_only(text_block) == StateZipSearch(StrUpper(text_block))

looks_like_address_block(text_block) ==
    LET t == StrUpper(text_block)
    IN  IF StateZipSearch(t) THEN TRUE
        ELSE IF BareZipSearch(t) THEN TRUE
        ELSE FALSE

\* ---------------------------------------------------- extract_address_lines

\* str.splitlines(), for the line breaks "\n", "\r", "\r\n" and "\f"
RECURSIVE SplitLinesFrom(_, _, _)
SplitLinesFrom(s, i, cur) ==
    IF i > Len(s) THEN (IF cur = <<>> THEN <<>> ELSE <<cur>>)
    ELSE IF s[i] = "\r" /\ i < Len(s) /\ s[i + 1] = "\n"
         THEN <<cur>> \o SplitLinesFrom(s, i + 2, <<>>)
    ELSE IF s[i] \in {"\n", "\r", "\f"}
         THEN <<cur>> \o SplitLinesFrom(s, i + 1, <<>>)
    ELSE SplitLinesFrom(s, i + 1, Append(cur, s[i]))

SplitLines(s) == SplitLinesFrom(s, 1, <<>>)

\* the list drop
Drop ==
    << <<"O","F","F","I","C","I","A","L"," ","R","E","C","O","R","D","S">>,
       <<"R","E","C","O","R","D","E","R">>,
       <<"D","O","C","U","M","E","N","T">>,
       <<"D","O","C","#">>,
       <<"I","N","S","T","R","U","M","E","N","T">>,
       <<"P","A","G","E","S">>,
       <<"D","A","T","E">>,
       <<"T","I","M","E">> >>

NonBlank(l) == Strip(l) # <<>>

NotNoise(l) == \A k \in 1..Len(Drop) : ~Contains(StrUpper(l), Drop[k])

\* the slice ls[:n]; a negative n counts from the end
FirstN(ls, n) ==
    IF n >= 0 THEN SubSeq(ls, 1, IF Len(ls) < n THEN Len(ls) ELSE n)
    ELSE SubSeq(ls, 1, IF Len(ls) + n < 0 THEN 0 ELSE Len(ls) + n)

DefaultMaxLines == 6

\* The faulty variant: the terms are looked for in the line as it is written.
extract_address_lines_case_sensitive(text_block, max_lines) ==
    LET raw      == SelectSeq(SplitLines(text_block), NonBlank)
        lines    == [i \in 1..Len(raw) |-> Strip(raw[i])]
        kept     == SelectSeq(lines, LAMBDA l : \A k \in 1..Len(Drop) : ~Contains(l, Drop[k]))
    IN  Strip(Join(FirstN(kept, max_lines), <<"\n">>))

extract_address_lines(text_block, max_lines) ==
    LET raw      == SelectSeq(SplitLines(text_block), NonBlank)
        lines    == [i \in 1..Len(raw) |-> Strip(raw[i])]
        kept     == SelectSeq(lines, NotNoise)
    IN  Strip(Join(FirstN(kept, max_lines), <<"\n">>))

\* ----------------------------------------------- parse_county_and_instrument

\* str.replace("\r", "\n")
ReplaceCR(s) == [i \in 1..Len(s) |-> IF s[i] = "\r" THEN "\n" ELSE s[i]]

\* str.split("\n"): always at least one piece
RECURSIVE SplitNewlineFrom(_, _, _)
SplitNewlineFrom(s, i, cur) ==
    IF i > Len(s) THEN <<cur>>
    ELSE IF s[i] = "\n" THEN <<cur>> \o SplitNewlineFrom(s, i + 1, <<>>)
    ELSE SplitNewlineFrom(s, i + 1, Append(cur, s[i]))

SplitNewline(s) == SplitNewlineFrom(s, 1, <<>>)

\* one past the end of the \s* run that starts at i
SpaceRunEnd(s, i) ==
    SetMin({j \in i..(Len(s) + 1) : j = Len(s) + 1 \/ ~IsSpace(s[j])})

\* [A-Za-z0-9\-\/]
IsTokenChar(c) == IsAlnum(c) \/ c \in {"-", "/"}

\* one past the end of the [A-Za-z0-9\-\/]* run that starts at i
TokenRunEnd(s, i) ==
    SetMin({j \in i..(Len(s) + 1) : j = Len(s) + 1 \/ ~IsTokenChar(s[j])})

CharAt(s, i) == IF i >= 1 /\ i <= Len(s) THEN s[i] ELSE ""

\* re.search(r"\bcounty\b", ln, re.IGNORECASE)
CountySearch(ln) ==
    LET l == StrLower(ln)
    IN  \E i \in 1..Len(l) :
            /\ Boundary(l, i)
            /\ MatchesAt(l, i, <<"c","o","u","n","t","y">>)
            /\ Boundary(l, i + 6)

\* The label alternatives of inst_label at position i of the lower-cased line:
\* where the label ends (one past it) and whether "(ument)" took part; 0 when
\* no alternative matches there.  instrument | inst\.?\s*no\.? | doc(ument)?\s*no\.?
LabelEndAt(l, i) ==
    IF MatchesAt(l, i, <<"i","n","s","t","r","u","m","e","n","t">>)
    THEN [end |-> i + 10, ument |-> FALSE]
    ELSE IF MatchesAt(l, i, <<"i","n","s","t">>)
    THEN LET p2 == IF CharAt(l, i + 4) = "." THEN i + 5 ELSE i + 4
             p3 == SpaceRunEnd(l, p2)
         IN  IF MatchesAt(l, p3, <<"n","o">>)
             THEN [end |-> IF CharAt(l, p3 + 2) = "." THEN p3 + 3 ELSE p3 + 2,
                   ument |-> FALSE]
             ELSE [end |-> 0, ument |-> FALSE]
    ELSE IF MatchesAt(l, i, <<"d","o","c">>)
    THEN LET u  == MatchesAt(l, i + 3, <<"u","m","e","n","t">>)
             p2 == IF u THEN i + 8 ELSE i + 3
             p3 == SpaceRunEnd(l, p2)
         IN  IF MatchesAt(l, p3, <<"n","o">>)
             THEN [end |-> IF CharAt(l, p3 + 2) = "." THEN p3 + 3 ELSE p3 + 2,
                   ument |-> u]
             ELSE [end |-> 0, ument |-> FALSE]
    ELSE [end |-> 0, ument |-> FALSE]

\* where the trailing token of inst_label starts after a label ending at e:
\* \s*[:#]?\s* skipped
LabelTokenStart(l, e) ==
    LET q1 == SpaceRunEnd(l, e)
        q2 == IF CharAt(l, q1) \in {":", "#"} THEN q1 + 1 ELSE q1
    IN  SpaceRunEnd(l, q2)

LabelMatchesAt(l, i) ==
    LET lab == LabelEndAt(l, i)
    IN  /\ lab.end > 0
        /\ TokenRunEnd(l, LabelTokenStart(l, lab.end)) > LabelTokenStart(l, lab.end)

\* inst_label.search(ln): the match object, as the tuple of its capture
\* groups (the pattern has three: the label, "(ument)" and the token), or
\* none.  A group that took no part in the match is None.
InstLabelSearch(ln) ==
    LET l    == StrLower(ln)
        hits == {i \in 1..Len(l) : LabelMatchesAt(l, i)}
    IN  IF hits = {} THEN [matched |-> FALSE, groups |-> <<>>]
        ELSE LET i   == SetMin(hits)
                 lab == LabelEndAt(l, i)
                 q   == LabelTokenStart(l, lab.end)
             IN  [matched |-> TRUE,
                  groups  |-> << SubSeq(ln, i, lab.end - 1),
                                 IF lab.ument THEN SubSeq(ln, i + 3, i + 7) ELSE "None",
                                 SubSeq(ln, q, TokenRunEnd(l, q) - 1) >>]

\* m.group(n): IndexError("no such group") when the pattern has no group n
MatchGroup(m, n) ==
    IF n \in 1..Len(m.groups)
    THEN [raised |-> FALSE, value |-> m.groups[n]]
    ELSE [raised |-> TRUE, value |-> "IndexError"]

\* the group of the match that parse_county_and_instrument reads
InstrumentGroup == 4

\* the first line on which inst_label matches, 0 when there is none
FirstLabelLine(lines) ==
    LET hits == {k \in 1..Len(lines) : InstLabelSearch(lines[k]).matched}
    IN  IF hits = {} THEN 0 ELSE SetMin(hits)

\* re.findall(r"\b[A-Za-z0-9]{4,}[A-Za-z0-9\-\/]*\b", s)
RECURSIVE FindGenericFrom(_, _)
FindGenericFrom(s, i) ==
    IF i > Len(s) THEN <<>>
    ELSE LET ends == IF Boundary(s, i) /\ (\A k \in i..(i + 3) : IsAlnum(CharAt(s, k)))
                     THEN {j \in (i + 4)..TokenRunEnd(s, i + 4) : Boundary(s, j)}
                     ELSE {}
         IN  IF ends = {} THEN FindGenericFrom(s, i + 1)
             ELSE <<SubSeq(s, i, SetMax(ends) - 1)>> \o FindGenericFrom(s, SetMax(ends))

FindGeneric(s) == FindGenericFrom(s, 1)

\* the fallback: the first generic token with a digit and a length of 6 to 18
FallbackInstrument(lines) ==
    LET generic == FindGeneric(Join(lines, <<" ">>))
        good    == {k \in 1..Len(generic) :
                      /\ \E n \in 1..Len(generic[k]) : IsDigit(generic[k][n])
                      /\ 6 <= Len(generic[k])
                      /\ Len(generic[k]) <= 18}
    IN  IF good = {} THEN <<>> ELSE generic[SetMin(good)]

\* The result of a call: the pair returned, or raised when an exception leaves
\* the function.
\* lines = [ln.strip() for ln in text.split("\n") if ln.strip()]
ParseLines(top_right_text) ==
    LET text   == ReplaceCR(top_right_text)
        pieces == SelectSeq(SplitNewline(text), NonBlank)
    IN  [k \in 1..Len(pieces) |-> Strip(pieces[k])]

parse_county_and_instrument(top_right_text) ==
    LET lines   == ParseLines(top_right_text)
        chits   == {k \in 1..Len(lines) : CountySearch(lines[k])}
        county  == IF chits = {} THEN <<>> ELSE lines[SetMin(chits)]
        k       == FirstLabelLine(lines)
        g       == IF k = 0 THEN [raised |-> FALSE, value |-> <<>>]
                   ELSE MatchGroup(InstLabelSearch(lines[k]), InstrumentGroup)
    IN  IF g.raised
        THEN [raised |-> TRUE, county |-> <<>>, instrument |-> <<>>]
        ELSE [raised     |-> FALSE,
              county     |-> county,
              instrument |-> IF g.value # <<>> THEN g.value
                             ELSE FallbackInstrument(lines)]

\* ------------------------------------------------------------ configuration

\* The ratios are percentages: 12 stands for 0.12.  Coordinates computed from
\* them are in hundredths of a unit, so that no fraction is lost.
HEADER_SKIP_RATIO == 12

LEFT_BOX_WIDTH_RATIO == 62

LEFT_BOX_HEIGHT_RATIO == 45

RIGHT_BOX_WIDTH_RATIO == 38

RIGHT_BOX_HEIGHT_RATIO == 45

FIRST_PAGE_ONLY == FALSE

\* the module's constants as one record
SourceConfig ==
    [header_skip  |-> HEADER_SKIP_RATIO,
     left_width   |-> LEFT_BOX_WIDTH_RATIO,
     left_height  |-> LEFT_BOX_HEIGHT_RATIO,
     right_width  |-> RIGHT_BOX_WIDTH_RATIO,
     right_height |-> RIGHT_BOX_HEIGHT_RATIO]

Min2(a, b) == IF a <= b THEN a ELSE b

Max2(a, b) == IF a >= b THEN a ELSE b

\* ----------------------------------------------------------- region geometry

\* page.width and page.height are whole units; the box is in hundredths
top_left_bbox_excluding_header(page, cfg) ==
    LET header_px == page.height * cfg.header_skip
        x0        == 0
        x1        == page.width * cfg.left_width
        top       == header_px
        bottom    == header_px + (page.height * cfg.left_height)
    IN  [x0     |-> Max2(0, x0),
         top    |-> Max2(0, top),
         x1     |-> Min2(x1, page.width * 100),
         bottom |-> Min2(bottom, page.height * 100)]

top_right_bbox_excluding_header(page, cfg) ==
    LET header_px == page.height * cfg.header_skip
        x0        == page.width * (100 - cfg.right_width)
        x1        == page.width * 100
        top       == header_px
        bottom    == header_px + (page.height * cfg.right_height)
    IN  [x0     |-> Max2(0, x0),
         top    |-> Max2(0, top),
         x1     |-> Min2(x1, page.width * 100),
         bottom |-> Min2(bottom, page.height * 100)]

\* ------------------------------------------------- words_to_text, crop_text

\* A word box is [text, x0, top], its position in hundredths of a unit.

\* round() of a position >= 0: to the nearest whole unit, a half to the even one
RoundHalfEven(v) ==
    LET q == v \div 100
        r == v % 100
    IN  IF r > 50 THEN q + 1
        ELSE IF r < 50 THEN q
        ELSE IF q % 2 = 0 THEN q ELSE q + 1

\* the sort key (round(top), x0) of a before that of b
KeyLess(a, b) ==
    \/ RoundHalfEven(a.top) < RoundHalfEven(b.top)
    \/ RoundHalfEven(a.top) = RoundHalfEven(b.top) /\ a.x0 < b.x0

\* w put after the last member that does not sort after it (a stable sort)
InsertWord(sorted, w) ==
    LET before == {k \in 1..Len(sorted) : ~KeyLess(w, sorted[k])}
        n      == IF before = {} THEN 0 ELSE SetMax(before)
    IN  SubSeq(sorted, 1, n) \o <<w>> \o SubSeq(sorted, n + 1, Len(sorted))

\* sorted(words, key=lambda w: (round(top), x0))
RECURSIVE SortWords(_)
SortWords(words) ==
    IF words = <<>> THEN <<>>
    ELSE InsertWord(SortWords(SubSeq(words, 1, Len(words) - 1)), words[Len(words)])

Abs(n) == IF n < 0 THEN -n ELSE n

\* the tolerance of the line clustering, three units
LineTolerance == 3

\* the loop of words_to_text over the sorted words: the lines, each a list of words
RECURSIVE GroupLines(_, _, _, _)
GroupLines(ws, k, current_y, line_words) ==
    IF k > Len(ws)
    THEN (IF line_words = <<>> THEN <<>> ELSE <<line_words>>)
    ELSE IF line_words = <<>> \/ Abs(ws[k].top - current_y) > LineTolerance * 100
         THEN (IF line_words = <<>> THEN <<>> ELSE <<line_words>>)
              \o GroupLines(ws, k + 1, ws[k].top, <<ws[k]>>)
         ELSE GroupLines(ws, k + 1, current_y, Append(line_words, ws[k]))

LineText(line_words) ==
    Join([k \in 1..Len(line_words) |-> line_words[k].text], <<" ">>)

words_to_text(words) ==
    LET lines == GroupLines(SortWords(words), 1, 0, <<>>)
    IN  Join([k \in 1..Len(lines) |-> LineText(lines[k])], <<"\n">>)

InBBox(w, bbox) ==
    /\ bbox.x0 <= w.x0 /\ w.x0 <= bbox.x1
    /\ bbox.top <= w.top /\ w.top <= bbox.bottom

crop_text(page, bbox) ==
    LET words        == page.words
        region_words == SelectSeq(words, LAMBDA w : InBBox(w, bbox))
    IN  Strip(words_to_text(region_words))

\* ------------------------------------------------------ ocr_region_from_page

\* dpi=300 of convert_from_path
OcrDpi == 300

NoCrop == [x0 |-> 0, top |-> 0, x1 |-> 0, bottom |-> 0]

\* the rectangle handed to img.crop, in whole pixels (int() cuts the fraction)
OcrCropBox(img, left, cfg) ==
    LET W         == img.width
        H         == img.height
        header_px == (H * cfg.header_skip) \div 100
    IN  [x0     |-> IF left THEN 0 ELSE (W * (100 - cfg.right_width)) \div 100,
         x1     |-> IF left THEN (W * cfg.left_width) \div 100 ELSE W,
         top    |-> header_px,
         bottom |-> (header_px * 100 + H * cfg.left_height) \div 100]

\* What the libraries do in one call, chosen by the environment:
\* raster is "error" (convert_from_path raises), "none" (it returns no image)
\* or "image"; recog is "error" (image_to_string raises) or "text".

\* The faulty variant: an error of the recognition is not caught.
ocr_region_from_page_recog_uncaught(use_ocr, env, left, cfg) ==
    IF ~use_ocr THEN [raised |-> FALSE, ret |-> <<>>, crop |-> NoCrop]
    ELSE IF env.raster = "error" THEN [raised |-> FALSE, ret |-> <<>>, crop |-> NoCrop]
    ELSE IF env.raster = "none" THEN [raised |-> FALSE, ret |-> <<>>, crop |-> NoCrop]
    ELSE IF env.recog = "error"
         THEN [raised |-> TRUE, ret |-> <<>>, crop |-> OcrCropBox(env.img, left, cfg)]
    ELSE [raised |-> FALSE, ret |-> env.text, crop |-> OcrCropBox(env.img, left, cfg)]

\* raised: an exception leaves the function; ret: the string returned
ocr_region_from_page(use_ocr, env, left, cfg) ==
    IF ~use_ocr THEN [raised |-> FALSE, ret |-> <<>>, crop |-> NoCrop]
    ELSE IF env.raster = "error" THEN [raised |-> FALSE, ret |-> <<>>, crop |-> NoCrop]
    ELSE IF env.raster = "none" THEN [raised |-> FALSE, ret |-> <<>>, crop |-> NoCrop]
    ELSE IF env.recog = "error"
         THEN [raised |-> FALSE, ret |-> <<>>, crop |-> OcrCropBox(env.img, left, cfg)]
    ELSE [raised |-> FALSE, ret |-> env.text, crop |-> OcrCropBox(env.img, left, cfg)]

\* ------------------------------------------------------------ get_avg_per_page

METRICS_JSON == "outputs/xlsx_metrics.json"

\* The faulty variant: the file's absence is not checked.
get_avg_per_page_unchecked(metrics_file) ==
    IF metrics_file.exists /\ ~metrics_file.valid
    THEN [raised |-> TRUE, type |-> "ValueError", names |-> "", value |-> 0]
    ELSE [raised |-> FALSE, type |-> "", names |-> "", value |-> metrics_file.avg]

\* avg is in tenths of a cent per page
get_avg_per_page(metrics_file) ==
    IF ~metrics_file.exists
    THEN [raised |-> TRUE, type |-> "FileNotFoundError", names |-> METRICS_JSON, value |-> 0]
    ELSE IF ~metrics_file.valid
    THEN [raised |-> TRUE, type |-> "ValueError", names |-> "", value |-> 0]
    ELSE [raised |-> FALSE, type |-> "", names |-> "", value |-> metrics_file.avg]

\* =================================================== the state of the model

VARIABLES
    \* --- the monthly run: what main() finds when the process starts
    argv_month,        \* a month argument was given
    month_dir_exists,  \* data/pdfs/<month> exists
    metrics_file,      \* outputs/xlsx_metrics.json: [exists, valid, avg]
    month_pdfs,        \* the names matched by month_dir.glob("*.pdf")
    USE_OCR,           \* whether the OCR libraries could be imported
    \* --- the monthly run: main()'s position and locals
    pc, avg_per_page, pdfs, doc, num_pages, i, page,
    left_text_block, left_addr_raw, right_text_block, page_records,
    \* --- the monthly run: effects
    out_dir_exists, summary, outcome,
    \* --- the monthly run: history
    opened,            \* documents pdfplumber.open was called on
    failed,            \* [file, cause]: documents whose processing raised
    scanned,           \* [file, page, left_raw, right_raw]: pages gone through
    completed,         \* [file, num_pages]: documents whose loop ran to its end
    calls,             \* extraction calls made for the page in hand, in order
    \* --- normalize_address
    n_pc, addr_a, addr_b, key_a, key_b, key_aa,
    \* --- looks_like_address_block
    c_pc, c_text, c_result,
    \* --- parse_county_and_instrument
    p_pc, p_text, p_result,
    \* --- region geometry
    g_pc, g_page, g_cfg, g_left, g_right,
    \* --- extract_address_lines
    l_pc, l_text, l_max, l_result,
    \* --- parse_recipient_and_address
    r_pc, r_text, r_max, r_result,
    \* --- words_to_text
    w_pc, w_words, w_lines, w_text,
    \* --- the OCR crop rectangle
    o_pc, o_img, o_cfg, o_left, o_right

runVars ==
    <<argv_month, month_dir_exists, metrics_file, month_pdfs, USE_OCR,
      pc, avg_per_page, pdfs, doc, num_pages, i, page,
      left_text_block, left_addr_raw, right_text_block, page_records,
      out_dir_exists, summary, outcome, opened, failed, scanned, completed, calls>>

normVars == <<n_pc, addr_a, addr_b, key_a, key_b, key_aa>>

classVars == <<c_pc, c_text, c_result>>

parseVars == <<p_pc, p_text, p_result>>

geomVars == <<g_pc, g_page, g_cfg, g_left, g_right>>

linesVars == <<l_pc, l_text, l_max, l_result>>

recipVars == <<r_pc, r_text, r_max, r_result>>

wordsVars == <<w_pc, w_words, w_lines, w_text>>

ocrGeomVars == <<o_pc, o_img, o_cfg, o_left, o_right>>

vars ==
    <<runVars, normVars, classVars, parseVars, geomVars,
      linesVars, recipVars, wordsVars, ocrGeomVars>>

\* A part of the model that a specification does not exercise keeps the
\* values its initial state gives it.
NoPage == [ok |-> FALSE, width |-> 0, height |-> 0, words |-> <<>>]

NoSummary == [written |-> FALSE, columns |-> <<>>, rows |-> <<>>]

Running == [kind |-> "running", detail |-> "", names |-> ""]

NoMetrics == [exists |-> FALSE, valid |-> FALSE, avg |-> 0]

NoText == [prefix |-> <<>>, core |-> <<>>, suffix |-> <<>>]

NoParse == [raised |-> FALSE, county |-> <<>>, instrument |-> <<>>]

NoRecipient == [recipient |-> <<>>, address |-> <<>>]

\* ======================================================= the monthly run

\* --- what a run may meet

FileNames == << <<"a",".","p","d","f">>, <<"b",".","p","d","f">> >>

\* a US Letter page in points, and its image at OcrDpi (72 points an inch)
LetterPage == [width |-> 612, height |-> 792]

LetterImage ==
    [width  |-> (LetterPage.width * OcrDpi) \div 72,
     height |-> (LetterPage.height * OcrDpi) \div 72]

Word(text, x0, top) == [text |-> text, x0 |-> x0, top |-> top]

\* a recorder banner inside the header band
HeaderWords == << Word(<<"R","E","C","O","R","D","E","R">>, 5000, 2000) >>

\* "LA, CA 92101" in the top-left region, the middle word a little lower
LeftAddressWords ==
    << Word(<<"9","2","1","0","1">>, 11000, 20000),
       Word(<<"L","A",",">>, 5000, 20000),
       Word(<<"C","A">>, 8000, 20040) >>

\* "SD, CA 92103" in the top-right region
RightAddressWords ==
    << Word(<<"S","D",",">>, 45000, 20000),
       Word(<<"C","A">>, 48000, 20000),
       Word(<<"9","2","1","0","3">>, 51000, 20000) >>

\* "PAGES 92101" in the top-right region: ZIP-like, and boilerplate
RightNoiseWords ==
    << Word(<<"P","A","G","E","S">>, 45000, 12000),
       Word(<<"9","2","1","0","1">>, 50000, 12000) >>

PageOf(words) ==
    [ok |-> TRUE, width |-> LetterPage.width, height |-> LetterPage.height, words |-> words]

\* the pages a document may hold; a page that is not ok raises when it is read
Pages ==
    { PageOf(<<>>),
      PageOf(HeaderWords \o LeftAddressWords),
      PageOf(RightNoiseWords),
      PageOf(LeftAddressWords \o RightAddressWords),
      [ok |-> FALSE, width |-> 0, height |-> 0, words |-> <<>>] }

\* what the OCR libraries may do in one call
OcrEnvs ==
    { [raster |-> "error", img |-> LetterImage, recog |-> "text",  text |-> <<>>],
      [raster |-> "none",  img |-> LetterImage, recog |-> "text",  text |-> <<>>],
      [raster |-> "image", img |-> LetterImage, recog |-> "error", text |-> <<>>],
      [raster |-> "image", img |-> LetterImage, recog |-> "text",  text |-> <<"\n">>],
      [raster |-> "image", img |-> LetterImage, recog |-> "text",
       text |-> <<"D","a","t","e"," ","1","\n","L","A",","," ","C","A"," ","9","2","1","0","1","\n">>] }

OcrFails(env) == env.raster = "error" \/ (env.raster = "image" /\ env.recog = "error")

MetricsFiles ==
    { NoMetrics,
      [exists |-> TRUE,  valid |-> FALSE, avg |-> 0],
      [exists |-> TRUE,  valid |-> TRUE,  avg |-> 530] }

RunInit ==
    /\ argv_month \in BOOLEAN
    /\ month_dir_exists \in BOOLEAN
    /\ metrics_file \in MetricsFiles
    /\ month_pdfs \in {SubSeq(FileNames, 1, n) : n \in 0..Len(FileNames)}
    /\ USE_OCR \in BOOLEAN
    /\ pc = "start" /\ avg_per_page = 0 /\ pdfs = <<>> /\ doc = 0 /\ num_pages = 0
    /\ i = 0 /\ page = NoPage
    /\ left_text_block = <<>> /\ left_addr_raw = <<>> /\ right_text_block = <<>>
    /\ page_records = <<>> /\ out_dir_exists = FALSE
    /\ summary = NoSummary /\ outcome = Running
    /\ opened = {} /\ failed = {} /\ scanned = {} /\ completed = {} /\ calls = <<>>
    /\ n_pc = "off" /\ addr_a = <<>> /\ addr_b = <<>>
    /\ key_a = <<>> /\ key_b = <<>> /\ key_aa = <<>>
    /\ c_pc = "off" /\ c_text = NoText /\ c_result = FALSE
    /\ p_pc = "off" /\ p_text = <<>> /\ p_result = NoParse
    /\ g_pc = "off" /\ g_page = [width |-> 0, height |-> 0]
    /\ g_cfg = SourceConfig /\ g_left = NoCrop /\ g_right = NoCrop
    /\ l_pc = "off" /\ l_text = <<>> /\ l_max = 0 /\ l_result = <<>>
    /\ r_pc = "off" /\ r_text = <<>> /\ r_max = 0 /\ r_result = NoRecipient
    /\ w_pc = "off" /\ w_words = <<>> /\ w_lines = <<>> /\ w_text = <<>>
    /\ o_pc = "off" /\ o_img = [width |-> 0, height |-> 0]
    /\ o_cfg = SourceConfig /\ o_left = NoCrop /\ o_right = NoCrop

\* --- the decisions main() takes for a page

\* "if not left_text_block and USE_OCR": the fallback is asked for
NeedsOcr_whenever_enabled(text_block, use_ocr) == use_ocr

NeedsOcr(text_block, use_ocr) == text_block = <<>> /\ use_ocr

\* extract_address_lines(t) if t and looks_like_address_block(t) else ""
AddressRaw(text_block) ==
    IF text_block # <<>> /\ looks_like_address_block(text_block)
    THEN extract_address_lines(text_block, DefaultMaxLines)
    ELSE <<>>

\* normalize_address(raw) if raw else ""
AddressNorm(addr_raw) == IF addr_raw # <<>> THEN normalize_address(addr_raw) ELSE <<>>

\* "if left_addr_raw or right_addr_raw": the page gets a record
ShouldEmit_both_sides(left_raw, right_raw) == left_raw # <<>> /\ right_raw # <<>>

ShouldEmit(left_raw, right_raw) == left_raw # <<>> \/ right_raw # <<>>

PageRecord(file, page_index, left_raw, right_raw) ==
    [file               |-> file,
     page_index         |-> page_index,
     left_address_raw   |-> left_raw,
     left_address_norm  |-> AddressNorm(left_raw),
     right_address_raw  |-> right_raw,
     right_address_norm |-> AddressNorm(right_raw),
     pages_for_cost     |-> 1]

\* --- the summary

SummaryColumns ==
    << "left_address", "right_address", "count", "files", "total_pages",
       "sample_left_raw", "sample_right_raw", "estimated_savings" >>

\* the characters of the model in code-point order
AsciiOrder ==
    <<"\t", "\n", "\f", "\r", " ", "#", "&", ",", "-", ".", "/",
      "0","1","2","3","4","5","6","7","8","9", ":">>
    \o UpperLetters \o <<"_">> \o LowerLetters

CharOrd(c) == CHOOSE k \in DOMAIN AsciiOrder : AsciiOrder[k] = c

\* a < b for strings
RECURSIVE TextLess(_, _)
TextLess(a, b) ==
    IF b = <<>> THEN FALSE
    ELSE IF a = <<>> THEN TRUE
    ELSE IF Head(a) = Head(b) THEN TextLess(Tail(a), Tail(b))
    ELSE CharOrd(Head(a)) < CharOrd(Head(b))

GroupKeyLess(k1, k2) ==
    \/ TextLess(k1[1], k2[1])
    \/ k1[1] = k2[1] /\ TextLess(k1[2], k2[2])

\* the group keys in the order groupby gives them (sorted)
RECURSIVE SortedKeys(_)
SortedKeys(S) ==
    IF S = {} THEN <<>>
    ELSE LET m == CHOOSE k \in S : \A o \in S : ~GroupKeyLess(o, k)
         IN  <<m>> \o SortedKeys(S \ {m})

\* the aggregation of one group
GroupRow(recs, key, avg) ==
    LET idx == {k \in 1..Len(recs) :
                  <<recs[k].left_address_norm, recs[k].right_address_norm>> = key}
        sum[n \in 0..Len(recs)] ==
            IF n = 0 THEN 0
            ELSE sum[n - 1] + (IF n \in idx THEN recs[n].pages_for_cost ELSE 0)
    IN  [left_address      |-> key[1],
         right_address     |-> key[2],
         count             |-> Cardinality(idx),
         files             |-> SelectSeq(FileNames,
                                   LAMBDA f : \E k \in idx : recs[k].file = f),
         total_pages       |-> sum[Len(recs)],
         sample_left_raw   |-> recs[SetMin(idx)].left_address_raw,
         sample_right_raw  |-> recs[SetMin(idx)].right_address_raw,
         estimated_savings |-> sum[Len(recs)] * avg]

\* sort_values(["estimated_savings", "count"], ascending=[False, False])
RowBefore(a, b) ==
    \/ a.estimated_savings > b.estimated_savings
    \/ a.estimated_savings = b.estimated_savings /\ a.count > b.count

InsertRow(sorted, r) ==
    LET before == {k \in 1..Len(sorted) : ~RowBefore(r, sorted[k])}
        n      == IF before = {} THEN 0 ELSE SetMax(before)
    IN  SubSeq(sorted, 1, n) \o <<r>> \o SubSeq(sorted, n + 1, Len(sorted))

RECURSIVE SortRows(_)
SortRows(rows) ==
    IF rows = <<>> THEN <<>>
    ELSE InsertRow(SortRows(SubSeq(rows, 1, Len(rows) - 1)), rows[Len(rows)])

GroupedRows(recs, avg) ==
    LET keys == SortedKeys({<<recs[k].left_address_norm, recs[k].right_address_norm>> :
                               k \in 1..Len(recs)})
    IN  SortRows([n \in 1..Len(keys) |-> GroupRow(recs, keys[n], avg)])

EmptySummary == [written |-> TRUE, columns |-> SummaryColumns, rows |-> <<>>]

\* --- the steps of main()

RunOnly ==
    UNCHANGED <<normVars, classVars, parseVars, geomVars,
                linesVars, recipVars, wordsVars, ocrGeomVars>>

RunInputs == <<argv_month, month_dir_exists, metrics_file, month_pdfs, USE_OCR>>

\* the for loop over pdfs goes on to the next document
AdvanceDoc ==
    /\ doc' = doc + 1
    /\ pc' = IF doc + 1 > Len(pdfs) THEN "summary" ELSE "open"
    /\ page' = NoPage /\ left_text_block' = <<>> /\ left_addr_raw' = <<>>
    /\ right_text_block' = <<>> /\ calls' = <<>>

\* except Exception as e: print the error, go on with the next document
DocumentFails(cause) ==
    /\ failed' = failed \cup {[file |-> pdfs[doc], cause |-> cause]}
    /\ AdvanceDoc

\* if len(sys.argv) < 2: print usage; sys.exit(1)
CheckArgs ==
    /\ pc = "start"
    /\ IF ~argv_month
       THEN /\ pc' = "exited"
            /\ outcome' = [kind |-> "exit", detail |-> "usage", names |-> ""]
       ELSE /\ pc' = "check_dir"
            /\ UNCHANGED outcome
    /\ UNCHANGED <<RunInputs, avg_per_page, pdfs, doc, num_pages, i, page,
                   left_text_block, left_addr_raw, right_text_block, page_records,
                   out_dir_exists, summary, opened, failed, scanned, completed, calls>>
    /\ RunOnly

\* if not month_dir.exists(): print; sys.exit(1).  Then OUTPUT_DIR.mkdir
CheckMonthDir ==
    /\ pc = "check_dir"
    /\ IF ~month_dir_exists
       THEN /\ pc' = "exited"
            /\ outcome' = [kind |-> "exit", detail |-> "folder not found",
                           names |-> "data/pdfs/<month>"]
            /\ UNCHANGED out_dir_exists
       ELSE /\ pc' = "metrics"
            /\ out_dir_exists' = TRUE
            /\ UNCHANGED outcome
    /\ UNCHANGED <<RunInputs, avg_per_page, pdfs, doc, num_pages, i, page,
                   left_text_block, left_addr_raw, right_text_block, page_records,
                   summary, opened, failed, scanned, completed, calls>>
    /\ RunOnly

\* avg_per_page = get_avg_per_page(): an exception here leaves main()
LoadMetrics ==
    /\ pc = "metrics"
    /\ LET r == get_avg_per_page(metrics_file)
       IN  IF r.raised
           THEN /\ pc' = "raised"
                /\ outcome' = [kind |-> "exception", detail |-> r.type, names |-> r.names]
                /\ UNCHANGED avg_per_page
           ELSE /\ pc' = "list"
                /\ avg_per_page' = r.value
                /\ UNCHANGED outcome
    /\ UNCHANGED <<RunInputs, pdfs, doc, num_pages, i, page,
                   left_text_block, left_addr_raw, right_text_block, page_records,
                   out_dir_exists, summary, opened, failed, scanned, completed, calls>>
    /\ RunOnly

\* pdfs = sorted(month_dir.glob("*.pdf")); the empty summary when there is none
ListPdfs ==
    /\ pc = "list"
    /\ pdfs' = month_pdfs
    /\ IF month_pdfs = <<>>
       THEN /\ summary' = EmptySummary
            /\ pc' = "done"
            /\ outcome' = [kind |-> "returned", detail |-> "no pdfs", names |-> ""]
            /\ UNCHANGED doc
       ELSE /\ doc' = 1
            /\ pc' = "open"
            /\ UNCHANGED <<summary, outcome>>
    /\ page_records' = <<>>
    /\ UNCHANGED <<RunInputs, avg_per_page, num_pages, i, page,
                   left_text_block, left_addr_raw, right_text_block,
                   out_dir_exists, opened, failed, scanned, completed, calls>>
    /\ RunOnly

\* with pdfplumber.open(pdf_path) as pdf: num_pages = len(pdf.pages)
OpenPdf ==
    /\ pc = "open"
    /\ opened' = opened \cup {pdfs[doc]}
    /\ \E corrupt \in BOOLEAN, n \in 0..MaxPages :
          IF corrupt
          THEN /\ n = 0
               /\ DocumentFails("open")
               /\ UNCHANGED <<num_pages, i, completed>>
          ELSE /\ num_pages' = n
               /\ i' = 0
               /\ IF n = 0
                  THEN /\ completed' = completed \cup {[file |-> pdfs[doc], num_pages |-> 0]}
                       /\ AdvanceDoc
                  ELSE /\ pc' = "left_crop"
                       /\ UNCHANGED <<doc, page, left_text_block, left_addr_raw,
                                      right_text_block, calls, completed>>
               /\ UNCHANGED failed
    /\ UNCHANGED <<RunInputs, avg_per_page, pdfs, page_records,
                   out_dir_exists, summary, outcome, scanned>>
    /\ RunOnly

\* page = pdf.pages[i]; left_text_block = crop_text(page, left_bbox)
CropLeft ==
    /\ pc = "left_crop"
    /\ \E pg \in Pages :
          IF ~pg.ok
          THEN /\ DocumentFails("left crop")
          ELSE LET t == crop_text(pg, top_left_bbox_excluding_header(pg, SourceConfig))
               IN  /\ page' = pg
                   /\ left_text_block' = t
                   /\ calls' = << [op |-> "crop_text", side |-> "left",
                                   ret |-> t, error |-> FALSE] >>
                   /\ pc' = "left_ocr"
                   /\ UNCHANGED <<doc, failed, left_addr_raw, right_text_block>>
    /\ UNCHANGED <<RunInputs, avg_per_page, pdfs, num_pages, i, page_records,
                   out_dir_exists, summary, outcome, opened, scanned, completed>>
    /\ RunOnly

\* the OCR fallback of a side, and that side's raw address
OcrStep(side, text_block) ==
    \E env \in OcrEnvs :
        LET called == NeedsOcr(text_block, USE_OCR)
            r      == ocr_region_from_page(USE_OCR, env, side = "left", SourceConfig)
            event  == [op |-> "ocr", side |-> side, ret |-> r.ret, error |-> OcrFails(env)]
        IN  IF called /\ r.raised
            THEN /\ DocumentFails("ocr")
                 /\ UNCHANGED <<i>>
            ELSE /\ calls' = IF called THEN Append(calls, event) ELSE calls
                 /\ IF side = "left"
                    THEN /\ left_text_block' = (IF called THEN r.ret ELSE text_block)
                         /\ left_addr_raw' = AddressRaw(left_text_block')
                         /\ pc' = "right_crop"
                         /\ UNCHANGED right_text_block
                    ELSE /\ right_text_block' = (IF called THEN r.ret ELSE text_block)
                         /\ pc' = "emit"
                         /\ UNCHANGED <<left_text_block, left_addr_raw>>
                 /\ UNCHANGED <<doc, page, failed, i>>

\* if not left_text_block and USE_OCR: ocr_region_from_page(.., left=True);
\* then left_addr_raw
LeftOcr ==
    /\ pc = "left_ocr"
    /\ OcrStep("left", left_text_block)
    /\ UNCHANGED <<RunInputs, avg_per_page, pdfs, num_pages, page_records,
                   out_dir_exists, summary, outcome, opened, scanned, completed>>
    /\ RunOnly

\* right_text_block = crop_text(page, right_bbox); the page may fail to be read
CropRight ==
    /\ pc = "right_crop"
    /\ \E raises \in BOOLEAN :
          IF raises
          THEN /\ DocumentFails("right crop")
          ELSE LET t == crop_text(page, top_right_bbox_excluding_header(page, SourceConfig))
               IN  /\ right_text_block' = t
                   /\ calls' = Append(calls, [op |-> "crop_text", side |-> "right",
                                              ret |-> t, error |-> FALSE])
                   /\ pc' = "right_ocr"
                   /\ UNCHANGED <<doc, page, failed, left_text_block, left_addr_raw>>
    /\ UNCHANGED <<RunInputs, avg_per_page, pdfs, num_pages, i, page_records,
                   out_dir_exists, summary, outcome, opened, scanned, completed>>
    /\ RunOnly

\* if not right_text_block and USE_OCR: ocr_region_from_page(.., left=False)
RightOcr ==
    /\ pc = "right_ocr"
    /\ OcrStep("right", right_text_block)
    /\ UNCHANGED <<RunInputs, avg_per_page, pdfs, num_pages, page_records,
                   out_dir_exists, summary, outcome, opened, scanned, completed>>
    /\ RunOnly

\* right_addr_raw; the record of the page, if it has an address; the next page
EmitPage ==
    /\ pc = "emit"
    /\ LET right_addr_raw == AddressRaw(right_text_block)
           file           == pdfs[doc]
       IN  /\ page_records' =
                 IF ShouldEmit(left_addr_raw, right_addr_raw)
                 THEN Append(page_records,
                             PageRecord(file, i + 1, left_addr_raw, right_addr_raw))
                 ELSE page_records
           /\ scanned' = scanned \cup {[file |-> file, page |-> i + 1,
                                        left_raw |-> left_addr_raw,
                                        right_raw |-> right_addr_raw]}
           /\ IF i + 1 < (IF FIRST_PAGE_ONLY THEN 1 ELSE num_pages)
              THEN /\ i' = i + 1
                   /\ pc' = "left_crop"
                   /\ page' = NoPage /\ left_text_block' = <<>> /\ left_addr_raw' = <<>>
                   /\ right_text_block' = <<>> /\ calls' = <<>>
                   /\ UNCHANGED <<doc, completed>>
              ELSE /\ completed' = completed \cup {[file |-> file, num_pages |-> num_pages]}
                   /\ AdvanceDoc
                   /\ UNCHANGED i
    /\ UNCHANGED <<RunInputs, avg_per_page, pdfs, num_pages,
                   out_dir_exists, summary, outcome, opened, failed>>
    /\ RunOnly

\* the empty summary when no record was made, else the grouped one
WriteSummary ==
    /\ pc = "summary"
    /\ summary' = IF page_records = <<>> THEN EmptySummary
                  ELSE [written |-> TRUE, columns |-> SummaryColumns,
                        rows |-> GroupedRows(page_records, avg_per_page)]
    /\ outcome' = [kind |-> "returned",
                   detail |-> IF page_records = <<>> THEN "no addresses" ELSE "wrote",
                   names |-> ""]
    /\ pc' = "done"
    /\ UNCHANGED <<RunInputs, avg_per_page, pdfs, doc, num_pages, i, page,
                   left_text_block, left_addr_raw, right_text_block, page_records,
                   out_dir_exists, opened, failed, scanned, completed, calls>>
    /\ RunOnly

RunNext ==
    \/ CheckArgs \/ CheckMonthDir \/ LoadMetrics \/ ListPdfs \/ OpenPdf
    \/ CropLeft \/ LeftOcr \/ CropRight \/ RightOcr \/ EmitPage \/ WriteSummary

SpecRun == RunInit /\ [][RunNext]_vars

\* --- properties of the monthly run

FailedFiles == {f.file : f \in failed}

RecordsOf(file, page_index) ==
    {k \in 1..Len(page_records) :
        page_records[k].file = file /\ page_records[k].page_index = page_index}

OcrEvents == {k \in 1..Len(calls) : calls[k].op = "ocr"}

\* C1: when the processing of a document raised, the final list of page
\* records holds no record whose file is that document.
C1_FailedDocumentHasNoRecord ==
    pc \in {"summary", "done"} =>
        \A f \in FailedFiles : \A k \in 1..Len(page_records) : page_records[k].file # f

\* C3: for a document processed without error, every page has exactly one
\* record if one of its two regions gave a non-empty raw address and none if
\* both gave nothing; no page has more than one record.
C3_OneRecordPerQualifyingPage ==
    /\ \A c \in completed :
          c.file \notin FailedFiles =>
             \A pg \in 1..c.num_pages :
                \E sc \in scanned :
                   /\ sc.file = c.file /\ sc.page = pg
                   /\ Cardinality(RecordsOf(c.file, pg)) =
                         (IF sc.left_raw # <<>> \/ sc.right_raw # <<>> THEN 1 ELSE 0)
    /\ \A k1, k2 \in 1..Len(page_records) :
          /\ page_records[k1].file = page_records[k2].file
          /\ page_records[k1].page_index = page_records[k2].page_index
          => k1 = k2

\* a finished document of two pages: one with an address on one side only,
\* one with none
C3_Witness ==
    \E c \in completed :
       /\ c.num_pages = 2
       /\ \E s1, s2 \in scanned :
             /\ s1.file = c.file /\ s2.file = c.file
             /\ s1.left_raw = <<>> /\ s1.right_raw # <<>>
             /\ s2.left_raw = <<>> /\ s2.right_raw = <<>>
             /\ Cardinality(RecordsOf(c.file, s1.page)) = 1
             /\ Cardinality(RecordsOf(c.file, s2.page)) = 0

\* C4: on a page, the OCR fallback of a region is called only after crop_text
\* returned the empty string for that region, and never for a region whose
\* text layer gave text.
C4_OcrOnlyAfterEmptyCrop ==
    \A k \in OcrEvents :
       /\ \E j \in 1..(k - 1) :
             /\ calls[j].op = "crop_text"
             /\ calls[j].side = calls[k].side
             /\ calls[j].ret = <<>>
       /\ \A j \in 1..Len(calls) :
             (calls[j].op = "crop_text" /\ calls[j].side = calls[k].side)
                => calls[j].ret = <<>>

\* a page whose left region had text (no OCR) and whose right region had none
C4_Witness ==
    /\ \E j \in 1..Len(calls) :
          calls[j].op = "crop_text" /\ calls[j].side = "left" /\ calls[j].ret # <<>>
    /\ \E k \in OcrEvents : calls[k].side = "right"
    /\ \A k \in OcrEvents : calls[k].side # "left"

\* C5: ocr_region_from_page returns the empty string and lets no error out
\* when the rasterization or the recognition raises or when USE_OCR is false;
\* no document is given up because of it, and the page goes on.
C5_OcrFailureIsEmptyText ==
    /\ \A env \in OcrEnvs, left \in BOOLEAN :
          /\ OcrFails(env) =>
                LET r == ocr_region_from_page(TRUE, env, left, SourceConfig)
                IN  r.ret = <<>> /\ ~r.raised
          /\ LET r == ocr_region_from_page(FALSE, env, left, SourceConfig)
             IN  r.ret = <<>> /\ ~r.raised
    /\ \A k \in OcrEvents : calls[k].error => calls[k].ret = <<>>
    /\ \A f \in failed : f.cause # "ocr"
    /\ (\E k \in OcrEvents : calls[k].error /\ calls[k].side = "left")
          => /\ pc \in {"right_crop", "right_ocr", "emit"} \/ pdfs[doc] \in FailedFiles
             /\ left_text_block = <<>> /\ left_addr_raw = <<>>

\* the OCR of the left region failed on the first page of a document of two,
\* and the page has reached the point where its record is decided
C5_Witness ==
    /\ pc = "emit" /\ i = 0 /\ num_pages = 2
    /\ \E k \in OcrEvents : calls[k].error /\ calls[k].side = "left"
    /\ pdfs[doc] \notin FailedFiles

\* C6 as stated: with the metric file absent, the run ends in an error that
\* names that file, before any document is opened or page processed, with no
\* record and no summary.
C6_AbsentMetricsErrorNamesFile ==
    (~metrics_file.exists /\ pc \in {"exited", "raised", "done"}) =>
        /\ outcome.kind = "exception" /\ outcome.names = METRICS_JSON
        /\ opened = {} /\ scanned = {} /\ page_records = <<>> /\ ~summary.written

\* C6, amended: with the metric file absent no document is opened, no page is
\* processed, no record is made and no summary is written; and when the month
\* argument was given and its folder exists, the run ends in a
\* FileNotFoundError that names the metric file.
C6_AbsentMetricsStopsBeforeWork ==
    ~metrics_file.exists =>
        /\ opened = {} /\ scanned = {} /\ calls = <<>>
        /\ page_records = <<>> /\ ~summary.written
        /\ pc \in {"start", "check_dir", "metrics", "exited", "raised"}
        /\ (argv_month /\ month_dir_exists /\ pc \notin {"start", "check_dir", "metrics"})
              => /\ pc = "raised"
                 /\ outcome = [kind |-> "exception", detail |-> "FileNotFoundError",
                               names |-> METRICS_JSON]

\* the run has failed on the absent metric file, in a folder that holds PDFs
C6_Witness ==
    /\ ~metrics_file.exists /\ pc = "raised" /\ month_pdfs # <<>>
    /\ outcome.names = METRICS_JSON

\* ===================================================== normalize_address

\* An address is drawn as a list of slots; a slot has several renderings that
\* differ only in letter case, in punctuation, or in the long and the short
\* form of a suffix or unit word.
SlotRenderings ==
    << {<<"M","a","i","n">>, <<"M","A","I","N">>},
       {<<"S","t","r","e","e","t">>, <<"S","T">>},
       {<<"A","p","t",".">>, <<"A","P","T">>, <<"A","p","a","r","t","m","e","n","t">>},
       {<<","," ">>, <<" ">>},
       {<<"4","B">>} >>

\* text that both strings of a pair carry unchanged
SharedSlots == {<<"#">>, <<"_">>, <<" ","\t">>}

\* two renderings of one slot, or one shared text twice
SlotPairs ==
    UNION {S \X S : S \in Range(SlotRenderings)} \cup {<<t, t>> : t \in SharedSlots}

\* the pair of the specification's example
ExampleLong == <<"1","2","3"," ","M","a","i","n"," ","S","t","r","e","e","t",","," ","A","p","t","."," ","4","B">>

ExampleShort == <<"1","2","3"," ","M","A","I","N"," ","S","T"," ","A","P","T"," ","4","B">>

DrawnPairs ==
    UNION { { << Flatten([k \in 1..n |-> seq[k][1]]), Flatten([k \in 1..n |-> seq[k][2]]) >> :
                seq \in [1..n -> SlotPairs] } : n \in 1..MaxSlots }

NormInit ==
    /\ \E pair \in DrawnPairs \cup {<<ExampleLong, ExampleShort>>} :
          addr_a = pair[1] /\ addr_b = pair[2]
    /\ n_pc = "start" /\ key_a = <<>> /\ key_b = <<>> /\ key_aa = <<>>
    /\ argv_month = FALSE /\ month_dir_exists = FALSE /\ metrics_file = NoMetrics
    /\ month_pdfs = <<>> /\ USE_OCR = FALSE
    /\ pc = "off" /\ avg_per_page = 0 /\ pdfs = <<>> /\ doc = 0 /\ num_pages = 0
    /\ i = 0 /\ page = NoPage
    /\ left_text_block = <<>> /\ left_addr_raw = <<>> /\ right_text_block = <<>>
    /\ page_records = <<>> /\ out_dir_exists = FALSE
    /\ summary = NoSummary /\ outcome = Running
    /\ opened = {} /\ failed = {} /\ scanned = {} /\ completed = {} /\ calls = <<>>
    /\ c_pc = "off" /\ c_text = NoText /\ c_result = FALSE
    /\ p_pc = "off" /\ p_text = <<>> /\ p_result = NoParse
    /\ g_pc = "off" /\ g_page = [width |-> 0, height |-> 0]
    /\ g_cfg = SourceConfig /\ g_left = NoCrop /\ g_right = NoCrop
    /\ l_pc = "off" /\ l_text = <<>> /\ l_max = 0 /\ l_result = <<>>
    /\ r_pc = "off" /\ r_text = <<>> /\ r_max = 0 /\ r_result = NoRecipient
    /\ w_pc = "off" /\ w_words = <<>> /\ w_lines = <<>> /\ w_text = <<>>
    /\ o_pc = "off" /\ o_img = [width |-> 0, height |-> 0]
    /\ o_cfg = SourceConfig /\ o_left = NoCrop /\ o_right = NoCrop

NormOnly ==
    UNCHANGED <<runVars, classVars, parseVars, geomVars,
                linesVars, recipVars, wordsVars, ocrGeomVars>>

\* the two raw strings are normalized
NormalizeRaw ==
    /\ n_pc = "start"
    /\ key_a' = normalize_address(addr_a)
    /\ key_b' = normalize_address(addr_b)
    /\ n_pc' = "keyed"
    /\ UNCHANGED <<addr_a, addr_b, key_aa>>
    /\ NormOnly

\* the key of the first is normalized again
NormalizeKey ==
    /\ n_pc = "keyed"
    /\ key_aa' = normalize_address(key_a)
    /\ n_pc' = "done"
    /\ UNCHANGED <<addr_a, addr_b, key_a, key_b>>
    /\ NormOnly

NormNext == NormalizeRaw \/ NormalizeKey

SpecNorm == NormInit /\ [][NormNext]_vars

\* C7: two raw strings that differ only in letter case, in punctuation and in
\* long or short suffix and unit words have the same normalized key; so have
\* "123 Main Street, Apt. 4B" and "123 MAIN ST APT 4B".
C7_VariantsShareKey == n_pc \in {"keyed", "done"} => key_a = key_b

\* C8: normalize_address is idempotent: normalizing a key gives the key.
C8_NormalizeIdempotent == n_pc = "done" => key_aa = key_a

\* a raw string that normalization changed, whose key normalizes to itself
C8_Witness ==
    /\ n_pc = "done" /\ key_a # addr_a /\ key_a # <<>> /\ key_aa = key_a
    /\ \E k \in 1..Len(addr_a) : addr_a[k] = "."

\* ============================================== looks_like_address_block

ZipSamples == { <<"C","A"," ","9","2","1","0","1">>, <<"9","0","2","1","0","-","1","2","3","4">> }

\* the characters put before and after a sample
AffixChars == {"x", "7", " ", "-", ","}

Affixes == UNION { [1..n -> AffixChars] : n \in 0..MaxAffix }

ClassInit ==
    /\ c_text \in [prefix : Affixes, core : ZipSamples, suffix : Affixes]
    /\ c_pc = "start" /\ c_result = FALSE
    /\ argv_month = FALSE /\ month_dir_exists = FALSE /\ metrics_file = NoMetrics
    /\ month_pdfs = <<>> /\ USE_OCR = FALSE
    /\ pc = "off" /\ avg_per_page = 0 /\ pdfs = <<>> /\ doc = 0 /\ num_pages = 0
    /\ i = 0 /\ page = NoPage
    /\ left_text_block = <<>> /\ left_addr_raw = <<>> /\ right_text_block = <<>>
    /\ page_records = <<>> /\ out_dir_exists = FALSE
    /\ summary = NoSummary /\ outcome = Running
    /\ opened = {} /\ failed = {} /\ scanned = {} /\ completed = {} /\ calls = <<>>
    /\ n_pc = "off" /\ addr_a = <<>> /\ addr_b = <<>>
    /\ key_a = <<>> /\ key_b = <<>> /\ key_aa = <<>>
    /\ p_pc = "off" /\ p_text = <<>> /\ p_result = NoParse
    /\ g_pc = "off" /\ g_page = [width |-> 0, height |-> 0]
    /\ g_cfg = SourceConfig /\ g_left = NoCrop /\ g_right = NoCrop
    /\ l_pc = "off" /\ l_text = <<>> /\ l_max = 0 /\ l_result = <<>>
    /\ r_pc = "off" /\ r_text = <<>> /\ r_max = 0 /\ r_result = NoRecipient
    /\ w_pc = "off" /\ w_words = <<>> /\ w_lines = <<>> /\ w_text = <<>>
    /\ o_pc = "off" /\ o_img = [width |-> 0, height |-> 0]
    /\ o_cfg = SourceConfig /\ o_left = NoCrop /\ o_right = NoCrop

ClassOnly ==
    UNCHANGED <<runVars, normVars, parseVars, geomVars,
                linesVars, recipVars, wordsVars, ocrGeomVars>>

Classify ==
    /\ c_pc = "start"
    /\ c_result' = looks_like_address_block(c_text.prefix \o c_text.core \o c_text.suffix)
    /\ c_pc' = "done"
    /\ UNCHANGED c_text
    /\ ClassOnly

ClassNext == Classify

SpecClass == ClassInit /\ [][ClassNext]_vars

\* C10 as stated: a string that contains "CA 92101" or "90210-1234" is
\* classified as an address, whatever precedes or follows the sample.
C10_AnyStringWithSample == c_pc = "done" => c_result = TRUE

StartsWithWordChar(s) == s # <<>> /\ IsWordChar(UpperChar(s[1]))

EndsWithWordChar(s) == s # <<>> /\ IsWordChar(UpperChar(s[Len(s)]))

\* C10, amended: a string that contains "CA 92101" not directly followed by a
\* word character, or "90210-1234" not directly preceded by one, is
\* classified as an address.
C10_DelimitedSample ==
    c_pc = "done" =>
        /\ (c_text.core = <<"C","A"," ","9","2","1","0","1">> /\ ~StartsWithWordChar(c_text.suffix))
              => c_result = TRUE
        /\ (c_text.core = <<"9","0","2","1","0","-","1","2","3","4">> /\ ~EndsWithWordChar(c_text.prefix))
              => c_result = TRUE

\* "90210-1234" after a comma and before a digit, classified as an address
C10_Witness ==
    /\ c_pc = "done" /\ c_result = TRUE
    /\ c_text.core = <<"9","0","2","1","0","-","1","2","3","4">>
    /\ c_text.prefix = <<"x", ",">> /\ c_text.suffix = <<"7">>

\* =========================================== parse_county_and_instrument

ParseTokens ==
    { <<"I","n","s","t","r","u","m","e","n","t">>, <<":">>, <<" ">>, <<"2","0","2","4","-","0","1","2","3","4","5">>, <<"D","o","c"," ","N","o",".">>, <<"L","A"," ","C","o","u","n","t","y">>, <<"x">>,
      <<"\n">> }

ParseTexts == UNION { {Flatten(seq) : seq \in [1..n -> ParseTokens]} : n \in 0..MaxParseTokens }

ParseInit ==
    /\ p_text \in ParseTexts
    /\ p_pc = "start" /\ p_result = NoParse
    /\ argv_month = FALSE /\ month_dir_exists = FALSE /\ metrics_file = NoMetrics
    /\ month_pdfs = <<>> /\ USE_OCR = FALSE
    /\ pc = "off" /\ avg_per_page = 0 /\ pdfs = <<>> /\ doc = 0 /\ num_pages = 0
    /\ i = 0 /\ page = NoPage
    /\ left_text_block = <<>> /\ left_addr_raw = <<>> /\ right_text_block = <<>>
    /\ page_records = <<>> /\ out_dir_exists = FALSE
    /\ summary = NoSummary /\ outcome = Running
    /\ opened = {} /\ failed = {} /\ scanned = {} /\ completed = {} /\ calls = <<>>
    /\ n_pc = "off" /\ addr_a = <<>> /\ addr_b = <<>>
    /\ key_a = <<>> /\ key_b = <<>> /\ key_aa = <<>>
    /\ c_pc = "off" /\ c_text = NoText /\ c_result = FALSE
    /\ g_pc = "off" /\ g_page = [width |-> 0, height |-> 0]
    /\ g_cfg = SourceConfig /\ g_left = NoCrop /\ g_right = NoCrop
    /\ l_pc = "off" /\ l_text = <<>> /\ l_max = 0 /\ l_result = <<>>
    /\ r_pc = "off" /\ r_text = <<>> /\ r_max = 0 /\ r_result = NoRecipient
    /\ w_pc = "off" /\ w_words = <<>> /\ w_lines = <<>> /\ w_text = <<>>
    /\ o_pc = "off" /\ o_img = [width |-> 0, height |-> 0]
    /\ o_cfg = SourceConfig /\ o_left = NoCrop /\ o_right = NoCrop

ParseOnly ==
    UNCHANGED <<runVars, normVars, classVars, geomVars,
                linesVars, recipVars, wordsVars, ocrGeomVars>>

ParseCountyAndInstrument ==
    /\ p_pc = "start"
    /\ p_result' = parse_county_and_instrument(p_text)
    /\ p_pc' = "done"
    /\ UNCHANGED p_text
    /\ ParseOnly

ParseNext == ParseCountyAndInstrument

SpecParse == ParseInit /\ [][ParseNext]_vars

\* C2: parse_county_and_instrument never raises; when a line matches the
\* labeled pattern the instrument is the pattern's trailing token, and when
\* neither the label nor the fallback matches it is the empty string.
C2_LabelledInstrumentReturned ==
    p_pc = "done" =>
        LET lines == ParseLines(p_text)
            k     == FirstLabelLine(lines)
        IN  /\ ~p_result.raised
            /\ k # 0 => p_result.instrument = InstLabelSearch(lines[k]).groups[3]
            /\ (k = 0 /\ FallbackInstrument(lines) = <<>>) => p_result.instrument = <<>>

\* ======================================================= region geometry

\* the ratios above 1, as percentages
RatiosOver == {100 * k + 50 : k \in 1..MaxRatioOver}

RatiosFor(configured) == {0, configured, 100} \cup RatiosOver

PageSizes == {LetterPage, [width |-> 1, height |-> 1]}

GeomInit ==
    /\ g_page \in PageSizes
    /\ g_cfg \in [header_skip  : RatiosFor(HEADER_SKIP_RATIO),
                  left_width   : RatiosFor(LEFT_BOX_WIDTH_RATIO),
                  left_height  : RatiosFor(LEFT_BOX_HEIGHT_RATIO),
                  right_width  : RatiosFor(RIGHT_BOX_WIDTH_RATIO),
                  right_height : RatiosFor(RIGHT_BOX_HEIGHT_RATIO)]
    /\ g_pc = "start" /\ g_left = NoCrop /\ g_right = NoCrop
    /\ argv_month = FALSE /\ month_dir_exists = FALSE /\ metrics_file = NoMetrics
    /\ month_pdfs = <<>> /\ USE_OCR = FALSE
    /\ pc = "off" /\ avg_per_page = 0 /\ pdfs = <<>> /\ doc = 0 /\ num_pages = 0
    /\ i = 0 /\ page = NoPage
    /\ left_text_block = <<>> /\ left_addr_raw = <<>> /\ right_text_block = <<>>
    /\ page_records = <<>> /\ out_dir_exists = FALSE
    /\ summary = NoSummary /\ outcome = Running
    /\ opened = {} /\ failed = {} /\ scanned = {} /\ completed = {} /\ calls = <<>>
    /\ n_pc = "off" /\ addr_a = <<>> /\ addr_b = <<>>
    /\ key_a = <<>> /\ key_b = <<>> /\ key_aa = <<>>
    /\ c_pc = "off" /\ c_text = NoText /\ c_result = FALSE
    /\ p_pc = "off" /\ p_text = <<>> /\ p_result = NoParse
    /\ l_pc = "off" /\ l_text = <<>> /\ l_max = 0 /\ l_result = <<>>
    /\ r_pc = "off" /\ r_text = <<>> /\ r_max = 0 /\ r_result = NoRecipient
    /\ w_pc = "off" /\ w_words = <<>> /\ w_lines = <<>> /\ w_text = <<>>
    /\ o_pc = "off" /\ o_img = [width |-> 0, height |-> 0]
    /\ o_cfg = SourceConfig /\ o_left = NoCrop /\ o_right = NoCrop

GeomOnly ==
    UNCHANGED <<runVars, normVars, classVars, parseVars,
                linesVars, recipVars, wordsVars, ocrGeomVars>>

ComputeBoxes ==
    /\ g_pc = "start"
    /\ g_left' = top_left_bbox_excluding_header(g_page, g_cfg)
    /\ g_right' = top_right_bbox_excluding_header(g_page, g_cfg)
    /\ g_pc' = "done"
    /\ UNCHANGED <<g_page, g_cfg>>
    /\ GeomOnly

GeomNext == ComputeBoxes

SpecGeom == GeomInit /\ [][GeomNext]_vars

\* a box in hundredths lies within the page
WithinPage(box, pg) ==
    /\ 0 <= box.x0 /\ box.x0 <= pg.width * 100
    /\ 0 <= box.x1 /\ box.x1 <= pg.width * 100
    /\ 0 <= box.top /\ box.top <= pg.height * 100
    /\ 0 <= box.bottom /\ box.bottom <= pg.height * 100

\* C9: for any page size and any ratios >= 0, every coordinate of the
\* top-left and of the top-right box lies within the page.
C9_BoxesWithinPage ==
    g_pc = "done" => WithinPage(g_left, g_page) /\ WithinPage(g_right, g_page)

\* =================================================== extract_address_lines

LineTokens ==
    { <<"1","2"," ","M","a","i","n"," ","S","t","\n">>, <<" ","D","a","t","e"," ","1","\r","\n">>, <<"d","o","c","#","9","\n">>,
      <<"A","p","t"," ","4">>, <<" ">>, <<"\f">> }

LineTexts == UNION { {Flatten(seq) : seq \in [1..n -> LineTokens]} : n \in 0..MaxLineTokens }

LinesInit ==
    /\ l_text \in LineTexts
    /\ l_max \in 0..MaxLinesArg
    /\ l_pc = "start" /\ l_result = <<>>
    /\ argv_month = FALSE /\ month_dir_exists = FALSE /\ metrics_file = NoMetrics
    /\ month_pdfs = <<>> /\ USE_OCR = FALSE
    /\ pc = "off" /\ avg_per_page = 0 /\ pdfs = <<>> /\ doc = 0 /\ num_pages = 0
    /\ i = 0 /\ page = NoPage
    /\ left_text_block = <<>> /\ left_addr_raw = <<>> /\ right_text_block = <<>>
    /\ page_records = <<>> /\ out_dir_exists = FALSE
    /\ summary = NoSummary /\ outcome = Running
    /\ opened = {} /\ failed = {} /\ scanned = {} /\ completed = {} /\ calls = <<>>
    /\ n_pc = "off" /\ addr_a = <<>> /\ addr_b = <<>>
    /\ key_a = <<>> /\ key_b = <<>> /\ key_aa = <<>>
    /\ c_pc = "off" /\ c_text = NoText /\ c_result = FALSE
    /\ p_pc = "off" /\ p_text = <<>> /\ p_result = NoParse
    /\ g_pc = "off" /\ g_page = [width |-> 0, height |-> 0]
    /\ g_cfg = SourceConfig /\ g_left = NoCrop /\ g_right = NoCrop
    /\ r_pc = "off" /\ r_text = <<>> /\ r_max = 0 /\ r_result = NoRecipient
    /\ w_pc = "off" /\ w_words = <<>> /\ w_lines = <<>> /\ w_text = <<>>
    /\ o_pc = "off" /\ o_img = [width |-> 0, height |-> 0]
    /\ o_cfg = SourceConfig /\ o_left = NoCrop /\ o_right = NoCrop

LinesOnly ==
    UNCHANGED <<runVars, normVars, classVars, parseVars, geomVars,
                recipVars, wordsVars, ocrGeomVars>>

ExtractAddressLines ==
    /\ l_pc = "start"
    /\ l_result' = extract_address_lines(l_text, l_max)
    /\ l_pc' = "done"
    /\ UNCHANGED <<l_text, l_max>>
    /\ LinesOnly

LinesNext == ExtractAddressLines

SpecLines == LinesInit /\ [][LinesNext]_vars

\* the lines of an output string
OutputLines(out) == IF out = <<>> THEN <<>> ELSE SplitNewline(out)

\* a line holds a term of the list drop, whatever the letter case of the line
HasDenyTerm(l) ==
    \E k \in 1..Len(Drop) : Contains(StrLower(l), StrLower(Drop[k]))

\* the stripped, non-blank lines of the input that hold no term, in input order
SurvivingLines(text_block) ==
    LET raw   == SplitLines(text_block)
        lines == [k \in 1..Len(raw) |-> Strip(raw[k])]
    IN  SelectSeq(lines, LAMBDA l : l # <<>> /\ ~HasDenyTerm(l))

\* C11: the output of extract_address_lines has at most max_lines lines, no
\* output line contains a denylist term in any letter case, and the output
\* lines are the first surviving lines of the input, in their original order.
C11_LinesBoundedFilteredOrdered ==
    l_pc = "done" =>
        LET out  == OutputLines(l_result)
            surv == SurvivingLines(l_text)
        IN  /\ Len(out) <= l_max
            /\ \A k \in 1..Len(out) : ~HasDenyTerm(out[k])
            /\ Len(out) = (IF Len(surv) < l_max THEN Len(surv) ELSE l_max)
            /\ \A k \in 1..Len(out) : out[k] = surv[k]

\* a block with a boilerplate line in lower case and more surviving lines
\* than max_lines: the output is cut to max_lines
C11_Witness ==
    /\ l_pc = "done" /\ l_max >= 1
    /\ Len(OutputLines(l_result)) = l_max
    /\ Len(SurvivingLines(l_text)) > l_max
    /\ \E k \in 1..Len(SplitLines(l_text)) :
          /\ HasDenyTerm(SplitLines(l_text)[k])
          /\ ~Contains(SplitLines(l_text)[k], Drop[7])

\* ============================================= parse_recipient_and_address

\* RECIPIENT_ANCHORS, each phrase as its words: \s+ stands between two words
RECIPIENT_ANCHORS ==
    << <<<<"a","f","t","e","r">>, <<"r","e","c","o","r","d","i","n","g">>, <<"m","a","i","l">>, <<"t","o">>>>,
       <<<<"w","h","e","n">>, <<"r","e","c","o","r","d","e","d">>, <<"m","a","i","l">>, <<"t","o">>>>,
       <<<<"r","e","c","o","r","d","i","n","g">>, <<"m","a","i","l">>, <<"t","o">>>>,
       <<<<"r","e","t","u","r","n">>, <<"t","o">>>> >>

\* one past the end of the phrase matched at s[i..] whatever the letter case,
\* 0 when it does not match there
RECURSIVE AnchorEndAt(_, _, _)
AnchorEndAt(s, at, words) ==
    IF ~MatchesAt(StrLower(s), at, Head(words)) THEN 0
    ELSE LET j == at + Len(Head(words))
         IN  IF Len(words) = 1 THEN j
             ELSE LET e == SpaceRunEnd(s, j)
                  IN  IF e = j THEN 0 ELSE AnchorEndAt(s, e, Tail(words))

\* anchor_regex.search(ln): the optional ":" never decides a match
AnchorSearch(ln) ==
    \E a \in 1..Len(RECIPIENT_ANCHORS) : \E at \in 1..Len(ln) :
        AnchorEndAt(ln, at, RECIPIENT_ANCHORS[a]) # 0

\* the slice ls[a:b] for a >= 0; a negative b counts from the end
Slice(ls, a, b) ==
    LET lo == IF a > Len(ls) THEN Len(ls) ELSE a
        hb == IF b < 0 THEN Len(ls) + b ELSE b
        hi == IF hb < 0 THEN 0 ELSE IF hb > Len(ls) THEN Len(ls) ELSE hb
    IN  SubSeq(ls, lo + 1, hi)

DefaultMaxLinesAfter == 5

\* the stripped pieces of the text, blank ones included
RecipientLines(top_left_text) ==
    LET pieces == SplitNewline(ReplaceCR(top_left_text))
    IN  [k \in 1..Len(pieces) |-> Strip(pieces[k])]

\* 0 when no line holds an anchor, else the place of the first that does
AnchorLine(lines) ==
    LET hits == {k \in 1..Len(lines) : AnchorSearch(lines[k])}
    IN  IF hits = {} THEN 0 ELSE SetMin(hits)

NameAndAddress(candidate) ==
    IF candidate = <<>> THEN NoRecipient
    ELSE [recipient |-> Head(candidate), address |-> Join(Tail(candidate), <<"\n">>)]

parse_recipient_and_address(top_left_text, max_lines_after) ==
    LET lines     == RecipientLines(top_left_text)
        start_idx == AnchorLine(lines)
        window    == IF start_idx = 0
                     THEN Slice(lines, 0, max_lines_after)
                     ELSE Slice(lines, start_idx, start_idx + max_lines_after)
    IN  NameAndAddress(SelectSeq(window, LAMBDA ln : ln # <<>>))

RecipTokens ==
    { <<"R","e","t","u","r","n"," ","t","o",":","\n">>, <<"R","e","c","o","r","d","i","n","g"," "," ","m","a","i","l","\t","T","O","\r","\n">>, <<"\n">>,
      <<"J"," ","D","o","e","\n">>, <<"1"," ","E","l","m">> }

RecipTexts == UNION { {Flatten(seq) : seq \in [1..n -> RecipTokens]} : n \in 0..MaxRecipTokens }

RecipInit ==
    /\ r_text \in RecipTexts
    /\ r_max \in (1..MaxLinesAfter) \cup {DefaultMaxLinesAfter}
    /\ r_pc = "start" /\ r_result = NoRecipient
    /\ argv_month = FALSE /\ month_dir_exists = FALSE /\ metrics_file = NoMetrics
    /\ month_pdfs = <<>> /\ USE_OCR = FALSE
    /\ pc = "off" /\ avg_per_page = 0 /\ pdfs = <<>> /\ doc = 0 /\ num_pages = 0
    /\ i = 0 /\ page = NoPage
    /\ left_text_block = <<>> /\ left_addr_raw = <<>> /\ right_text_block = <<>>
    /\ page_records = <<>> /\ out_dir_exists = FALSE
    /\ summary = NoSummary /\ outcome = Running
    /\ opened = {} /\ failed = {} /\ scanned = {} /\ completed = {} /\ calls = <<>>
    /\ n_pc = "off" /\ addr_a = <<>> /\ addr_b = <<>>
    /\ key_a = <<>> /\ key_b = <<>> /\ key_aa = <<>>
    /\ c_pc = "off" /\ c_text = NoText /\ c_result = FALSE
    /\ p_pc = "off" /\ p_text = <<>> /\ p_result = NoParse
    /\ g_pc = "off" /\ g_page = [width |-> 0, height |-> 0]
    /\ g_cfg = SourceConfig /\ g_left = NoCrop /\ g_right = NoCrop
    /\ l_pc = "off" /\ l_text = <<>> /\ l_max = 0 /\ l_result = <<>>
    /\ w_pc = "off" /\ w_words = <<>> /\ w_lines = <<>> /\ w_text = <<>>
    /\ o_pc = "off" /\ o_img = [width |-> 0, height |-> 0]
    /\ o_cfg = SourceConfig /\ o_left = NoCrop /\ o_right = NoCrop

RecipOnly ==
    UNCHANGED <<runVars, normVars, classVars, parseVars, geomVars,
                linesVars, wordsVars, ocrGeomVars>>

ParseRecipientAndAddress ==
    /\ r_pc = "start"
    /\ r_result' = parse_recipient_and_address(r_text, r_max)
    /\ r_pc' = "done"
    /\ UNCHANGED <<r_text, r_max>>
    /\ RecipOnly

RecipNext == ParseRecipientAndAddress

SpecRecip == RecipInit /\ [][RecipNext]_vars

\* the non-empty lines that follow line k
NonEmptyAfter(lines, k) ==
    SelectSeq(SubSeq(lines, k + 1, Len(lines)), LAMBDA ln : ln # <<>>)

\* C12: when a line matches an anchor phrase, the recipient is the first
\* non-empty line after the anchor line and the address is the next up to
\* N - 1 non-empty lines after it (N = max_lines_after), however many blank
\* lines lie between the anchor and those lines.
C12_RecipientIsFirstNonEmptyAfterAnchor ==
    r_pc = "done" =>
        LET lines == RecipientLines(r_text)
            k     == AnchorLine(lines)
            after == IF k = 0 THEN <<>> ELSE NonEmptyAfter(lines, k)
            n     == IF Len(after) < r_max THEN Len(after) ELSE r_max
        IN  (k # 0 /\ after # <<>>) =>
                /\ r_result.recipient = after[1]
                /\ r_result.address = Join(SubSeq(after, 2, n), <<"\n">>)

\* ============================================================ words_to_text

\* horizontal positions, and vertical ones: two of one baseline that differ
\* by a fifth of a unit, and one of another line (hundredths of a unit)
WordX0s == {1000, 5000, 9000}

WordTops == {1040, 1060, 2000}

WordTexts == << <<"a">>, <<"b">>, <<"c">>, <<"d">>, <<"e">> >>

\* the k-th word of a list carries the k-th text
WordLists ==
    UNION { { [k \in 1..n |-> Word(WordTexts[k], at[k][1], at[k][2])] :
                at \in [1..n -> WordX0s \X WordTops] } : n \in 0..MaxWords }

WordsInit ==
    /\ w_words \in WordLists
    /\ w_pc = "start" /\ w_lines = <<>> /\ w_text = <<>>
    /\ argv_month = FALSE /\ month_dir_exists = FALSE /\ metrics_file = NoMetrics
    /\ month_pdfs = <<>> /\ USE_OCR = FALSE
    /\ pc = "off" /\ avg_per_page = 0 /\ pdfs = <<>> /\ doc = 0 /\ num_pages = 0
    /\ i = 0 /\ page = NoPage
    /\ left_text_block = <<>> /\ left_addr_raw = <<>> /\ right_text_block = <<>>
    /\ page_records = <<>> /\ out_dir_exists = FALSE
    /\ summary = NoSummary /\ outcome = Running
    /\ opened = {} /\ failed = {} /\ scanned = {} /\ completed = {} /\ calls = <<>>
    /\ n_pc = "off" /\ addr_a = <<>> /\ addr_b = <<>>
    /\ key_a = <<>> /\ key_b = <<>> /\ key_aa = <<>>
    /\ c_pc = "off" /\ c_text = NoText /\ c_result = FALSE
    /\ p_pc = "off" /\ p_text = <<>> /\ p_result = NoParse
    /\ g_pc = "off" /\ g_page = [width |-> 0, height |-> 0]
    /\ g_cfg = SourceConfig /\ g_left = NoCrop /\ g_right = NoCrop
    /\ l_pc = "off" /\ l_text = <<>> /\ l_max = 0 /\ l_result = <<>>
    /\ r_pc = "off" /\ r_text = <<>> /\ r_max = 0 /\ r_result = NoRecipient
    /\ o_pc = "off" /\ o_img = [width |-> 0, height |-> 0]
    /\ o_cfg = SourceConfig /\ o_left = NoCrop /\ o_right = NoCrop

WordsOnly ==
    UNCHANGED <<runVars, normVars, classVars, parseVars, geomVars,
                linesVars, recipVars, ocrGeomVars>>

\* words_to_text(w_words): the lines it builds and the text it returns
WordsToText ==
    /\ w_pc = "start"
    /\ w_lines' = GroupLines(SortWords(w_words), 1, 0, <<>>)
    /\ w_text' = words_to_text(w_words)
    /\ w_pc' = "done"
    /\ UNCHANGED w_words
    /\ WordsOnly

WordsNext == WordsToText

SpecWords == WordsInit /\ [][WordsNext]_vars

\* C13: within every line of the text that words_to_text rebuilds the words
\* stand left to right, in non-decreasing order of x0, also when the words of
\* one line differ in their vertical position by less than a unit.
C13_WordsLeftToRightInLine ==
    w_pc = "done" =>
        /\ w_text = Join([k \in 1..Len(w_lines) |-> LineText(w_lines[k])], <<"\n">>)
        /\ \A k \in 1..Len(w_lines) : \A j \in 1..(Len(w_lines[k]) - 1) :
              w_lines[k][j].x0 <= w_lines[k][j + 1].x0

\* ===================================================== the OCR crop rectangle

\* the rendered images: a US Letter page at OcrDpi, and a small square one
OcrImages == {LetterImage, [width |-> 1000, height |-> 1000]}

OcrGeomInit ==
    /\ o_img \in OcrImages
    /\ o_cfg \in [header_skip  : RatiosFor(HEADER_SKIP_RATIO),
                  left_width   : RatiosFor(LEFT_BOX_WIDTH_RATIO),
                  left_height  : RatiosFor(LEFT_BOX_HEIGHT_RATIO),
                  right_width  : RatiosFor(RIGHT_BOX_WIDTH_RATIO),
                  right_height : RatiosFor(RIGHT_BOX_HEIGHT_RATIO)]
    /\ o_pc = "start" /\ o_left = NoCrop /\ o_right = NoCrop
    /\ argv_month = FALSE /\ month_dir_exists = FALSE /\ metrics_file = NoMetrics
    /\ month_pdfs = <<>> /\ USE_OCR = FALSE
    /\ pc = "off" /\ avg_per_page = 0 /\ pdfs = <<>> /\ doc = 0 /\ num_pages = 0
    /\ i = 0 /\ page = NoPage
    /\ left_text_block = <<>> /\ left_addr_raw = <<>> /\ right_text_block = <<>>
    /\ page_records = <<>> /\ out_dir_exists = FALSE
    /\ summary = NoSummary /\ outcome = Running
    /\ opened = {} /\ failed = {} /\ scanned = {} /\ completed = {} /\ calls = <<>>
    /\ n_pc = "off" /\ addr_a = <<>> /\ addr_b = <<>>
    /\ key_a = <<>> /\ key_b = <<>> /\ key_aa = <<>>
    /\ c_pc = "off" /\ c_text = NoText /\ c_result = FALSE
    /\ p_pc = "off" /\ p_text = <<>> /\ p_result = NoParse
    /\ g_pc = "off" /\ g_page = [width |-> 0, height |-> 0]
    /\ g_cfg = SourceConfig /\ g_left = NoCrop /\ g_right = NoCrop
    /\ l_pc = "off" /\ l_text = <<>> /\ l_max = 0 /\ l_result = <<>>
    /\ r_pc = "off" /\ r_text = <<>> /\ r_max = 0 /\ r_result = NoRecipient
    /\ w_pc = "off" /\ w_words = <<>> /\ w_lines = <<>> /\ w_text = <<>>

OcrGeomOnly ==
    UNCHANGED <<runVars, normVars, classVars, parseVars, geomVars,
                linesVars, recipVars, wordsVars>>

\* the rectangles ocr_region_from_page crops for left=True and for left=False
ComputeOcrBoxes ==
    /\ o_pc = "start"
    /\ o_left' = OcrCropBox(o_img, TRUE, o_cfg)
    /\ o_right' = OcrCropBox(o_img, FALSE, o_cfg)
    /\ o_pc' = "done"
    /\ UNCHANGED <<o_img, o_cfg>>
    /\ OcrGeomOnly

OcrGeomNext == ComputeOcrBoxes

SpecOcrGeom == OcrGeomInit /\ [][OcrGeomNext]_vars

\* the ratios the text-layer box of a side uses: the header skip, the side's
\* width and the side's own height
SideRatios(left, cfg) ==
    [header_skip |-> cfg.header_skip,
     width       |-> IF left THEN cfg.left_width ELSE cfg.right_width,
     height      |-> IF left THEN cfg.left_height ELSE cfg.right_height]

\* those ratios applied to the image, in whole pixels
PixelBox(img, left, cfg) ==
    LET r         == SideRatios(left, cfg)
        header_px == (img.height * r.header_skip) \div 100
    IN  [x0     |-> IF left THEN 0 ELSE (img.width * (100 - r.width)) \div 100,
         x1     |-> IF left THEN (img.width * r.width) \div 100 ELSE img.width,
         top    |-> header_px,
         bottom |-> (header_px * 100 + img.height * r.height) \div 100]

\* C14: for each side and any configured ratios, the pixel rectangle the OCR
\* fallback crops is the one got by applying to the image the ratios of that
\* side's text-layer box: header skip, the side's width, the side's own height.
C14_OcrBoxUsesSideRatios ==
    o_pc = "done" =>
        /\ o_left = PixelBox(o_img, TRUE, o_cfg)
        /\ o_right = PixelBox(o_img, FALSE, o_cfg)

\* ====================================================== the rollup's reader

\* the columns load_monthly expects of every monthly CSV
ExpectedColumns ==
    {"address", "count", "files", "total_pages", "sample_raw", "estimated_savings"}

\* load_monthly over the monthly CSVs in name order: it raises ValueError at
\* the first CSV that lacks an expected column
load_monthly(csvs) ==
    LET lacking == {k \in 1..Len(csvs) : ExpectedColumns \ Range(csvs[k].columns) # {}}
    IN  IF lacking = {} THEN [raised |-> FALSE, missing |-> {}]
        ELSE [raised  |-> TRUE,
              missing |-> ExpectedColumns \ Range(csvs[SetMin(lacking)].columns)]

\* C15: every monthly summary the run writes, empty or grouped, has all the
\* columns load_monthly requires, so the rollup that reads it does not stop
\* with a missing-columns error.
C15_SummaryHasRollupColumns ==
    summary.written =>
        /\ ExpectedColumns \subseteq Range(summary.columns)
        /\ ~load_monthly(<<summary>>).raised

====
